---- MODULE Spec2Model ----
(***************************************************************************)
(* Cover letter service: generate_cover_letter, send_cover_letter_by_email *)
(* and generate_cover_letter_in_background_task of                         *)
(* cover_letter_service.py, with the datastore tables they write           *)
(* (CoverLetter, Customer.num_cover_letters_generated, ConversionEvent)    *)
(* and the calls they make to the completion provider, the email delivery  *)
(* API and the monitoring service.                                         *)
(*                                                                         *)
(* Every invocation runs in a frame task[t]; the frame keeps the           *)
(* invocation's arguments, its locals, its position, the calls it made to  *)
(* the collaborators and the datastore as it was when the invocation       *)
(* started.                                                                *)
(***************************************************************************)
EXTENDS Integers, Sequences, FiniteSets

VARIABLES
    coverLetters,    \* CoverLetter.objects: the rows, in creation order
    numGenerated,    \* Customer.num_cover_letters_generated as persisted, per customer
    conversionEvents,\* ConversionEvent.objects: the rows, in creation order
    task,            \* the frame of each worker
    started          \* number of invocations started so far

vars == <<coverLetters, numGenerated, conversionEvents, task, started>>

----------------------------------------------------------------------------
(* Bounds of the model *)

\* Workers that can hold an invocation.
NumTasks == 2

\* Invocations started in one behaviour.
MaxCalls == 2

\* Stand-in for openai.get_max_token_limit(GPT_MODEL_IN_USE), in tokens.
MaxTokenLimit == 10

----------------------------------------------------------------------------
(* Program constants *)

MAX_TOKENS_CHAT_COMPLETION == 600

AI_CONTEXT_MESSAGE_BEGIN == "AI_CONTEXT_MESSAGE_BEGIN"
AI_CONTEXT_MESSAGE_TASK == "AI_CONTEXT_MESSAGE_TASK"
AI_CONTEXT_MESSAGE_RETURN == "AI_CONTEXT_MESSAGE_RETURN"
GPT_MODEL_IN_USE == "GPT4_OMNI"
SENDGRID_EMAIL_TEMPLATE_ID == "abcde"
SENDGRID_EMAIL_SENDER == "settings.SENDGRID_EMAIL_SENDER"
COVER_LETTER_GENERATE == "COVER_LETTER_GENERATE"
COVER_LETTER_UNABLE_TO_GENERATE == "COVER_LETTER_UNABLE_TO_GENERATE"
COVER_LETTER_UNABLE_TO_SEND_EMAIL == "COVER_LETTER_UNABLE_TO_SEND_EMAIL"
COVER_LETTER_UNABLE_TO_SEND_FEEDBACK_TO_FIXPOINT == "COVER_LETTER_UNABLE_TO_SEND_FEEDBACK_TO_FIXPOINT"

\* CoverLetterFeedbackChoicesEnum values, and the null rating.
RATING_THUMBS_UP == "CoverLetterFeedbackChoicesEnum.THUMBS_UP"
RATING_THUMBS_DOWN == "CoverLetterFeedbackChoicesEnum.THUMBS_DOWN"
RATING_NONE == "None"

\* fixpoint_sdk.ThumbsReaction
THUMBS_UP == "ThumbsReaction.THUMBS_UP"
THUMBS_DOWN == "ThumbsReaction.THUMBS_DOWN"

\* MAX_INPUT_TOKENS = get_max_token_limit(model) * 0.7, kept in tenths of a
\* token so that the product stays an integer.
MAX_INPUT_TOKENS_TENTHS == MaxTokenLimit * 7

\* Faulty variant of the budget test: compares with the whole context window.
MutExceedsFullWindow(num_input_tokens) == num_input_tokens > MaxTokenLimit
\* num_input_tokens > MAX_INPUT_TOKENS
ExceedsMaxInputTokens(num_input_tokens) == num_input_tokens * 10 > MAX_INPUT_TOKENS_TENTHS

----------------------------------------------------------------------------
(* Inputs *)

Tasks == 1..NumTasks
Customers == {"c1", "c2"}

\* The requests a caller makes: a resume, a job description and the cookies
\* of the HTTP request.
Requests ==
    { [resume |-> "r1", job_description_text |-> "jd1", request_cookies |-> "cookies1"],
      [resume |-> "r2", job_description_text |-> "jd2", request_cookies |-> "cookies2"] }

\* What openai.num_tokens_from_string counts for resume_text +
\* job_description_text: nothing, the largest count within MAX_INPUT_TOKENS,
\* the smallest count above it, and a full context window.
TokenCounts ==
    {0, MAX_INPUT_TOKENS_TENTHS \div 10, (MAX_INPUT_TOKENS_TENTHS \div 10) + 1, MaxTokenLimit}

\* resume.customer
ResumeCustomer(resume) == IF resume = "r1" THEN "c1" ELSE "c2"

\* resume_service.convert_resume_to_str(resume)
convert_resume_to_str(resume) == <<"text of", resume>>

\* resume.get_contact_info_first_name()
get_contact_info_first_name(resume) == <<"first name of", resume>>

\* customer.user.email
UserEmail(customer) == <<"email of", customer>>

\* customer.user.id
UserId(customer) == <<"id of user of", customer>>

\* The ratings a cover letter can hold when the feedback is sent.
Ratings == {RATING_THUMBS_UP, RATING_THUMBS_DOWN, RATING_NONE}

\* What fixpoint.record_single_user_feedback can do.
FeedbackOutcomes == {"return", "raise"}

\* list_all_exp_variant_strings(request_cookies)
list_all_exp_variant_strings(request_cookies) ==
    IF request_cookies = "cookies1" THEN <<>> ELSE <<"_exp_2">>

\* Generated texts, as sequences of characters.
Text1 == <<"D", "\n", "I">>
Text2 == <<"G">>
NoName == "no name"

\* What fixpoint.create_chat_completion can do: raise, or return
\* (openai_response, fixpoint_input_log, fixpoint_output_log).
Completions ==
    { [kind |-> "raise", choices |-> <<>>, input_log |-> NoName, output_log |-> NoName],
      [kind |-> "return", choices |-> <<Text1, Text2>>, input_log |-> "in-1", output_log |-> "out-1"],
      [kind |-> "return", choices |-> <<Text2>>, input_log |-> "in-2", output_log |-> "out-2"],
      [kind |-> "return", choices |-> <<>>, input_log |-> "in-1", output_log |-> "out-1"],
      [kind |-> "return", choices |-> <<Text1>>, input_log |-> NoName, output_log |-> "out-2"] }

NotCalled == [kind |-> "not called", choices |-> <<>>, input_log |-> NoName, output_log |-> NoName]

\* What sendgrid_mail_send.post can do: raise, or return a response with a status code.
StatusCodes == {100, 199, 200, 202, 299, 300, 500}
EmailOutcomes ==
    {[kind |-> "raise", status_code |-> 0]}
        \cup {[kind |-> "response", status_code |-> s] : s \in StatusCodes}
NotPosted == [kind |-> "not posted", status_code |-> 0]

----------------------------------------------------------------------------
(* Values *)

\* The values an entry point hands back.
False == [kind |-> "False"]
True == [kind |-> "True"]
None == [kind |-> "None"]
Raised == [kind |-> "exception"]

\* A CoverLetter row; rating is null until the feedback flow sets it, and
\* created_at is the row's place in the order of creation.
CoverLetter(id, resume, job_description_text, generated_text, log_name) ==
    [ kind |-> "CoverLetter",
      id |-> id,
      resume_id |-> resume,
      customer |-> ResumeCustomer(resume),
      job_description_text |-> job_description_text,
      generated_text |-> generated_text,
      fixpoint_input_log_response_name |-> log_name,
      rating |-> RATING_NONE,
      created_at |-> id ]

\* The messages of the prompt.
Messages(resume_text, job_description_text) ==
    << AI_CONTEXT_MESSAGE_BEGIN,
       AI_CONTEXT_MESSAGE_TASK,
       [resume |-> resume_text, job_description |-> job_description_text],
       AI_CONTEXT_MESSAGE_RETURN >>

CompletionCall(resume, job_description_text) ==
    [ messages |-> Messages(convert_resume_to_str(resume), job_description_text),
      model |-> GPT_MODEL_IN_USE,
      max_tokens |-> MAX_TOKENS_CHAT_COMPLETION ]

----------------------------------------------------------------------------
(* generate_cover_letter *)

\* Faulty variant: a response without an input-log name is accepted.
MutUsableWithoutLogName(completion) ==
    /\ completion.kind = "return"
    /\ completion.choices # <<>>
\* The try block up to the create: the provider returned, and both
\* openai_response.choices[0].message.content and fixpoint_input_log["name"]
\* evaluate without raising.
CompletionUsable(completion) ==
    /\ completion.kind = "return"
    /\ completion.choices # <<>>
    /\ completion.input_log # NoName

\* Faulty variant: the last choice instead of the first.
MutLastChoice(completion) == completion.choices[Len(completion.choices)]
\* openai_response.choices[0].message.content
GeneratedText(completion) == completion.choices[1]

\* fixpoint_input_log["name"]
InputLogName(completion) == completion.input_log

\* Faulty variant: the exception is not caught.
MutExceptReraises == Raised
\* except Exception as e: return False
ExceptResult == False

\* The next CoverLetter id.
NextId(letters) == Len(letters) + 1

\* generate_cover_letter(resume, job_description_text), given the number of
\* tokens the tokenizer counts, what the provider does when called and
\* whether CoverLetter.objects.create succeeds.  The result holds the value
\* returned, the CoverLetter table afterwards, the provider calls made, and
\* what happened at the provider and at the create.
generate_cover_letter(resume, job_description_text, num_input_tokens, completion, create_ok, letters) ==
    IF ExceedsMaxInputTokens(num_input_tokens)
    THEN [ ret |-> False, letters |-> letters, calls |-> <<>>,
           completion |-> NotCalled, create |-> "not attempted" ]
    ELSE LET calls == <<CompletionCall(resume, job_description_text)>> IN
         IF ~CompletionUsable(completion)
         THEN [ ret |-> ExceptResult, letters |-> letters, calls |-> calls,
                completion |-> completion, create |-> "not attempted" ]
         ELSE IF ~create_ok
         THEN [ ret |-> ExceptResult, letters |-> letters, calls |-> calls,
                completion |-> completion, create |-> "failed" ]
         ELSE LET row == CoverLetter(NextId(letters), resume, job_description_text,
                                     GeneratedText(completion), InputLogName(completion))
              IN [ ret |-> row, letters |-> Append(letters, row), calls |-> calls,
                   completion |-> completion, create |-> "ok" ]

----------------------------------------------------------------------------
(* send_cover_letter_by_email *)

\* "<br />"
BrMarkup == <<"<", "b", "r", " ", "/", ">">>

\* text.replace("\n", "<br />")
RECURSIVE ReplaceNewlines(_)
ReplaceNewlines(text) ==
    IF text = <<>>
    THEN <<>>
    ELSE (IF Head(text) = "\n" THEN BrMarkup ELSE <<Head(text)>>)
             \o ReplaceNewlines(Tail(text))

\* The request body handed to sendgrid_mail_send.post.
EmailRequest(customer, cover_letter, resume) ==
    [ personalizations |->
        << [ to |-> <<[email |-> UserEmail(customer)]>>,
             dynamic_template_data |->
                [ firstName |-> get_contact_info_first_name(resume),
                  generatedCoverLetter |-> ReplaceNewlines(cover_letter.generated_text) ] ] >>,
      from |-> [email |-> SENDGRID_EMAIL_SENDER, name |-> "Jobs"],
      template_id |-> SENDGRID_EMAIL_TEMPLATE_ID ]

\* response.status_code > 299
StatusRejected(status_code) == status_code > 299

\* Faulty variant: the transport exception is raised again.
MutSendExceptReraises == Raised
\* except Exception: notify(...); return False
SendExceptResult == False

\* send_cover_letter_by_email(customer, cover_letter, resume), given what the
\* email delivery does with the request.  The result holds the value
\* returned, the requests posted and the alerts reported.
send_cover_letter_by_email(customer, cover_letter, resume, outcome) ==
    LET posts == <<EmailRequest(customer, cover_letter, resume)>> IN
    IF outcome.kind = "raise"
    THEN [ ret |-> SendExceptResult, posts |-> posts,
           notified |-> <<COVER_LETTER_UNABLE_TO_SEND_EMAIL>> ]
    ELSE IF StatusRejected(outcome.status_code)
    THEN [ ret |-> False, posts |-> posts,
           notified |-> <<COVER_LETTER_UNABLE_TO_SEND_EMAIL>> ]
    ELSE [ ret |-> True, posts |-> posts, notified |-> <<>> ]

----------------------------------------------------------------------------
(* generate_cover_letter_in_background_task *)

\* BackgroundTaskErrorSerializer(error_message=...).serialize()
BackgroundTaskError(error_message) ==
    [kind |-> "error", is_error |-> TRUE, error_message |-> error_message]

\* str(cover_letter.id)
Str(id) == <<"str", id>>

\* CoverLetterSerializer(cover_letter).data
CoverLetterSerializerData(cover_letter) ==
    [ kind |-> "data",
      id |-> Str(cover_letter.id),
      job_description_text |-> cover_letter.job_description_text,
      generated_text |-> cover_letter.generated_text,
      rating |-> cover_letter.rating,
      created_at |-> cover_letter.created_at ]

\* Faulty variant: the counter is incremented by two.
MutIncrementTwice(num_cover_letters_generated) == num_cover_letters_generated + 2
\* customer.num_cover_letters_generated += 1
Increment(num_cover_letters_generated) == num_cover_letters_generated + 1

MutSaveAtomicIncrement(in_memory, persisted) == persisted + 1

\* customer.save() writes the in-memory attribute of the customer object over
\* the persisted column, whatever the column holds by then: there is no
\* F() expression, select_for_update or version check.
SavedCounter(in_memory, persisted) == in_memory

\* Faulty variant: cover_letter is None.
MutFailedIsNone(cover_letter) == cover_letter = None
\* cover_letter is False
GenerationFailed(cover_letter) == cover_letter = False

\* Faulty variant: a failed email fails the background task.
MutEmailFailureIsFatal(email_sent) == email_sent = False
\* The value of send_cover_letter_by_email is dropped: "Ignore errors, since
\* this isn't critical."
EmailFailureIsFatal(email_sent) == FALSE

\* The ConversionEvent row of a generation.
ConversionEvent(resume, request_cookies) ==
    [ event_name |-> COVER_LETTER_GENERATE,
      resume |-> resume,
      exp_variant_strings |-> list_all_exp_variant_strings(request_cookies) ]

----------------------------------------------------------------------------
(* send_user_feedback_to_fixpoint *)

\* Faulty variant: the reactions are swapped.
MutReactionSwapped(rating) == IF rating = RATING_THUMBS_DOWN THEN THUMBS_UP ELSE THUMBS_DOWN
\* thumbs_reaction = ThumbsReaction.THUMBS_UP, unless the rating is THUMBS_DOWN
Reaction(rating) == IF rating = RATING_THUMBS_DOWN THEN THUMBS_DOWN ELSE THUMBS_UP

\* fixpoint.create_user_feedback_like_message(thumbs_reaction,
\* input_log_response_name, user_id)
create_user_feedback_like_message(thumbs_reaction, input_log_response_name, user_id) ==
    [ log_name |-> input_log_response_name,
      thumbs_reaction |-> thumbs_reaction,
      user_id |-> user_id ]

\* Faulty variant: the failure is not reported.
MutFeedbackExceptSilent == <<>>
\* except Exception as e: notify(exception=e, error_message=...)
FeedbackExceptAlerts == <<COVER_LETTER_UNABLE_TO_SEND_FEEDBACK_TO_FIXPOINT>>

\* send_user_feedback_to_fixpoint(cover_letter), given what the feedback
\* logging does with the message.  The result holds the value returned, the
\* messages submitted and the alerts reported.
send_user_feedback_to_fixpoint(cover_letter, outcome) ==
    LET message == create_user_feedback_like_message(
                       Reaction(cover_letter.rating),
                       Str(cover_letter.fixpoint_input_log_response_name),
                       Str(UserId(cover_letter.customer)))
    IN [ ret |-> None,
         likes |-> <<message>>,
         notified |-> IF outcome = "raise" THEN FeedbackExceptAlerts ELSE <<>> ]

----------------------------------------------------------------------------
(* Frames *)

IdleFrame ==
    [ entry |-> "none",
      pc |-> "idle",
      resume |-> "r1",
      job_description_text |-> "jd1",
      customer |-> "c1",
      request_cookies |-> "cookies1",
      num_input_tokens |-> 0,
      customer_num |-> 0,           \* customer.num_cover_letters_generated, in memory
      cover_letter |-> None,        \* the local cover_letter
      completion |-> NotCalled,     \* what the provider did
      create |-> "not attempted",   \* CoverLetter.objects.create
      save |-> "not attempted",     \* customer.save()
      event |-> "not attempted",    \* ConversionEvent.objects.create
      post |-> NotPosted,           \* what the email delivery did
      feedback |-> "not sent",      \* what the feedback logging did
      likes |-> <<>>,               \* calls of fixpoint.record_single_user_feedback
      completion_calls |-> <<>>,    \* calls of fixpoint.create_chat_completion
      posts |-> <<>>,               \* calls of sendgrid_mail_send.post
      notified |-> <<>>,            \* calls of notify
      email_sent |-> None,          \* what send_cover_letter_by_email returned
      ret |-> None,                 \* what the entry point returned
      pre_letters |-> <<>>,         \* the datastore when the invocation started
      pre_generated |-> [c \in Customers |-> 0],
      pre_events |-> <<>> ]

\* A worker takes an invocation when no invocation is running: the module
\* is single-threaded and synchronous per invocation.
CanStart(t) ==
    /\ started < MaxCalls
    /\ \A u \in Tasks : task[u].pc = "idle"

NewFrame(entry, pc, resume, job_description_text, customer) ==
    [ IdleFrame EXCEPT
        !.entry = entry,
        !.pc = pc,
        !.resume = resume,
        !.job_description_text = job_description_text,
        !.customer = customer,
        !.customer_num = numGenerated[customer],
        !.pre_letters = coverLetters,
        !.pre_generated = numGenerated,
        !.pre_events = conversionEvents ]

\* A caller invokes generate_cover_letter(resume, job_description_text).
StartGenerate(t) ==
    /\ CanStart(t)
    /\ \E rq \in Requests, n \in TokenCounts :
         task' = [task EXCEPT ![t] =
                    [ NewFrame("generate_cover_letter", "generate", rq.resume,
                               rq.job_description_text, ResumeCustomer(rq.resume))
                      EXCEPT !.num_input_tokens = n ]]
    /\ started' = started + 1
    /\ UNCHANGED <<coverLetters, numGenerated, conversionEvents>>

\* The body of generate_cover_letter, run by the caller or by the background
\* task.  The background task has no try around the call: an exception
\* generate_cover_letter let through would end it.
GenerateCoverLetter(t) ==
    /\ task[t].pc = "generate"
    /\ \E completion \in Completions, create_ok \in BOOLEAN :
         LET f == task[t]
             r == generate_cover_letter(f.resume, f.job_description_text,
                                        f.num_input_tokens, completion, create_ok,
                                        coverLetters)
             g == [ f EXCEPT !.completion = r.completion,
                             !.create = r.create,
                             !.completion_calls = r.calls ]
         IN /\ coverLetters' = r.letters
            /\ task' = [task EXCEPT ![t] =
                          IF f.entry = "generate_cover_letter"
                          THEN [g EXCEPT !.pc = "done", !.ret = r.ret]
                          ELSE IF r.ret = Raised
                          THEN [g EXCEPT !.pc = "done", !.ret = Raised, !.cover_letter = Raised]
                          ELSE [g EXCEPT !.pc = "generated", !.cover_letter = r.ret]]
    /\ UNCHANGED <<numGenerated, conversionEvents, started>>

\* A caller invokes send_cover_letter_by_email(customer, cover_letter, resume)
\* with a cover letter of the datastore, its resume and its customer.
StartEmail(t) ==
    /\ CanStart(t)
    /\ \E i \in 1..Len(coverLetters) :
         LET cl == coverLetters[i] IN
         task' = [task EXCEPT ![t] =
                    [ NewFrame("send_cover_letter_by_email", "email", cl.resume_id,
                               cl.job_description_text, cl.customer)
                      EXCEPT !.cover_letter = cl ]]
    /\ started' = started + 1
    /\ UNCHANGED <<coverLetters, numGenerated, conversionEvents>>

\* The background queue runs generate_cover_letter_in_background_task(resume,
\* job_description_text, customer, request_cookies) for a resume of the customer.
StartBackground(t) ==
    /\ CanStart(t)
    /\ \E rq \in Requests, n \in TokenCounts :
         task' = [task EXCEPT ![t] =
                    [ NewFrame("generate_cover_letter_in_background_task", "generate",
                               rq.resume, rq.job_description_text, ResumeCustomer(rq.resume))
                      EXCEPT !.num_input_tokens = n, !.request_cookies = rq.request_cookies ]]
    /\ started' = started + 1
    /\ UNCHANGED <<coverLetters, numGenerated, conversionEvents>>

\* if cover_letter is False: notify(...); return the error payload.
BackgroundFailed(t) ==
    /\ task[t].pc = "generated"
    /\ GenerationFailed(task[t].cover_letter)
    /\ task' = [task EXCEPT ![t] =
                  [ @ EXCEPT !.pc = "done",
                             !.notified = Append(@, COVER_LETTER_UNABLE_TO_GENERATE),
                             !.ret = BackgroundTaskError(COVER_LETTER_UNABLE_TO_GENERATE) ]]
    /\ UNCHANGED <<coverLetters, numGenerated, conversionEvents, started>>

\* customer.num_cover_letters_generated += 1; customer.save()
SaveCustomer(t) ==
    /\ task[t].pc = "generated"
    /\ ~GenerationFailed(task[t].cover_letter)
    /\ \E save_ok \in BOOLEAN :
         LET f == task[t]
             n == Increment(f.customer_num)
         IN IF save_ok
            THEN /\ numGenerated' = [numGenerated EXCEPT ![f.customer] = SavedCounter(n, @)]
                 /\ task' = [task EXCEPT ![t] =
                               [f EXCEPT !.pc = "saved", !.customer_num = n, !.save = "ok"]]
            ELSE /\ numGenerated' = numGenerated
                 /\ task' = [task EXCEPT ![t] =
                               [f EXCEPT !.pc = "done", !.customer_num = n,
                                         !.save = "failed", !.ret = Raised]]
    /\ UNCHANGED <<coverLetters, conversionEvents, started>>

\* ConversionEvent.objects.create(...)
CreateConversionEvent(t) ==
    /\ task[t].pc = "saved"
    /\ \E create_ok \in BOOLEAN :
         LET f == task[t] IN
         IF create_ok
         THEN /\ conversionEvents' =
                    Append(conversionEvents, ConversionEvent(f.resume, f.request_cookies))
              /\ task' = [task EXCEPT ![t] = [f EXCEPT !.pc = "email", !.event = "ok"]]
         ELSE /\ conversionEvents' = conversionEvents
              /\ task' = [task EXCEPT ![t] =
                            [f EXCEPT !.pc = "done", !.event = "failed", !.ret = Raised]]
    /\ UNCHANGED <<coverLetters, numGenerated, started>>

\* The body of send_cover_letter_by_email, run by the caller or by the
\* background task, which has no try around the call and drops its value.
SendCoverLetterByEmail(t) ==
    /\ task[t].pc = "email"
    /\ \E outcome \in EmailOutcomes :
         LET f == task[t]
             r == send_cover_letter_by_email(f.customer, f.cover_letter, f.resume, outcome)
             g == [ f EXCEPT !.post = outcome,
                             !.posts = f.posts \o r.posts,
                             !.notified = f.notified \o r.notified,
                             !.email_sent = r.ret ]
         IN task' = [task EXCEPT ![t] =
                       IF f.entry = "send_cover_letter_by_email"
                       THEN [g EXCEPT !.pc = "done", !.ret = r.ret]
                       ELSE IF r.ret = Raised
                       THEN [g EXCEPT !.pc = "done", !.ret = Raised]
                       ELSE IF EmailFailureIsFatal(r.ret)
                       THEN [g EXCEPT !.pc = "done",
                                      !.ret = BackgroundTaskError(COVER_LETTER_UNABLE_TO_SEND_EMAIL)]
                       ELSE [g EXCEPT !.pc = "serialize"]]
    /\ UNCHANGED <<coverLetters, numGenerated, conversionEvents, started>>

\* response_serializer = CoverLetterSerializer(cover_letter); return response_serializer.data
ReturnSerialized(t) ==
    /\ task[t].pc = "serialize"
    /\ task' = [task EXCEPT ![t] =
                  [ @ EXCEPT !.pc = "done",
                             !.ret = CoverLetterSerializerData(task[t].cover_letter) ]]
    /\ UNCHANGED <<coverLetters, numGenerated, conversionEvents, started>>

\* The rating of a cover letter of the datastore has been set (or left
\* null), and the rating-update trigger invokes
\* send_user_feedback_to_fixpoint(cover_letter) with that row.
StartFeedback(t) ==
    /\ CanStart(t)
    /\ \E i \in 1..Len(coverLetters), rating \in Ratings :
         LET cl == [coverLetters[i] EXCEPT !.rating = rating]
             letters == [coverLetters EXCEPT ![i] = cl]
         IN /\ coverLetters' = letters
            /\ task' = [task EXCEPT ![t] =
                          [ NewFrame("send_user_feedback_to_fixpoint", "feedback",
                                     cl.resume_id, cl.job_description_text, cl.customer)
                            EXCEPT !.cover_letter = cl, !.pre_letters = letters ]]
    /\ started' = started + 1
    /\ UNCHANGED <<numGenerated, conversionEvents>>

\* The body of send_user_feedback_to_fixpoint.
SendUserFeedbackToFixpoint(t) ==
    /\ task[t].pc = "feedback"
    /\ \E outcome \in FeedbackOutcomes :
         LET f == task[t]
             r == send_user_feedback_to_fixpoint(f.cover_letter, outcome)
         IN task' = [task EXCEPT ![t] =
                       [ f EXCEPT !.pc = "done",
                                  !.feedback = outcome,
                                  !.likes = r.likes,
                                  !.notified = f.notified \o r.notified,
                                  !.ret = r.ret ]]
    /\ UNCHANGED <<coverLetters, numGenerated, conversionEvents, started>>

\* The caller has the returned value; the frame is dropped.
Return(t) ==
    /\ task[t].pc = "done"
    /\ task' = [task EXCEPT ![t] = IdleFrame]
    /\ UNCHANGED <<coverLetters, numGenerated, conversionEvents, started>>

Init ==
    /\ coverLetters = <<>>
    /\ numGenerated = [c \in Customers |-> 0]
    /\ conversionEvents = <<>>
    /\ task = [t \in Tasks |-> IdleFrame]
    /\ started = 0

Next ==
    \E t \in Tasks :
        \/ StartGenerate(t)
        \/ StartEmail(t)
        \/ StartBackground(t)
        \/ GenerateCoverLetter(t)
        \/ BackgroundFailed(t)
        \/ SaveCustomer(t)
        \/ CreateConversionEvent(t)
        \/ SendCoverLetterByEmail(t)
        \/ ReturnSerialized(t)
        \/ StartFeedback(t)
        \/ SendUserFeedbackToFixpoint(t)
        \/ Return(t)

Spec == Init /\ [][Next]_vars

\* Workers of the background queue run in parallel: a free worker takes an
\* invocation of generate_cover_letter_in_background_task while other
\* invocations are under way.  The customer object it is handed carries the
\* counter as it was persisted when the invocation was taken.
StartBackgroundConcurrent(t) ==
    /\ started < MaxCalls
    /\ task[t].pc = "idle"
    /\ \E rq \in Requests, n \in TokenCounts :
         task' = [task EXCEPT ![t] =
                    [ NewFrame("generate_cover_letter_in_background_task", "generate",
                               rq.resume, rq.job_description_text, ResumeCustomer(rq.resume))
                      EXCEPT !.num_input_tokens = n, !.request_cookies = rq.request_cookies ]]
    /\ started' = started + 1
    /\ UNCHANGED <<coverLetters, numGenerated, conversionEvents>>

NextConcurrent ==
    \E t \in Tasks :
        \/ StartBackgroundConcurrent(t)
        \/ GenerateCoverLetter(t)
        \/ BackgroundFailed(t)
        \/ SaveCustomer(t)
        \/ CreateConversionEvent(t)
        \/ SendCoverLetterByEmail(t)
        \/ ReturnSerialized(t)
        \/ Return(t)

SpecConcurrent == Init /\ [][NextConcurrent]_vars

----------------------------------------------------------------------------
(* What an invocation has done so far *)

\* generate_cover_letter has run to its end in frame t.
GenerateEnded(t) ==
    /\ task[t].entry \in {"generate_cover_letter", "generate_cover_letter_in_background_task"}
    /\ task[t].pc \notin {"idle", "generate"}

\* What generate_cover_letter handed to its caller in frame t.
GenerateValue(t) ==
    IF task[t].entry = "generate_cover_letter"
    THEN task[t].ret
    ELSE task[t].cover_letter

\* The token count of frame t is above 70% of the context window.
OverBudget(t) == task[t].num_input_tokens * 10 > MaxTokenLimit * 7

\* The provider was called in frame t and returned a response with a first
\* choice and an input-log name.
WellFormedCompletion(t) ==
    /\ task[t].completion.kind = "return"
    /\ Len(task[t].completion.choices) >= 1
    /\ task[t].completion.input_log # NoName

\* The provider was called in frame t and raised, or returned a response
\* without a first choice or without an input-log name.
FailedCompletion(t) ==
    \/ task[t].completion.kind = "raise"
    \/ /\ task[t].completion.kind = "return"
       /\ \/ Len(task[t].completion.choices) = 0
          \/ task[t].completion.input_log = NoName

\* Frame t has created exactly one CoverLetter row.
CreatedOneLetter(t) ==
    /\ Len(coverLetters) = Len(task[t].pre_letters) + 1
    /\ SubSeq(coverLetters, 1, Len(task[t].pre_letters)) = task[t].pre_letters

\* The CoverLetter row frame t created.
CreatedLetter(t) == coverLetters[Len(coverLetters)]

\* The background task of frame t has ended.
BackgroundEnded(t) ==
    /\ task[t].entry = "generate_cover_letter_in_background_task"
    /\ task[t].pc = "done"

\* The generator handed a CoverLetter row to the background task of frame t.
GeneratorSucceeded(t) == task[t].cover_letter.kind = "CoverLetter"

\* The persisted counter of frame t's customer is one more than when the
\* invocation started, and no other counter has changed.
CounterIncremented(t) ==
    numGenerated =
        [task[t].pre_generated EXCEPT ![task[t].customer] = task[t].pre_generated[task[t].customer] + 1]

\* Frame t has created exactly one ConversionEvent, for the generation.
EventCreated(t) ==
    conversionEvents =
        Append(task[t].pre_events,
               [ event_name |-> "COVER_LETTER_GENERATE",
                 resume |-> task[t].resume,
                 exp_variant_strings |-> list_all_exp_variant_strings(task[t].request_cookies) ])

\* The payload of frame t is the serialized view of its cover letter.
ReturnedSerializedLetter(t) ==
    /\ task[t].ret.kind = "data"
    /\ task[t].ret.id = <<"str", task[t].cover_letter.id>>
    /\ task[t].ret.job_description_text = task[t].cover_letter.job_description_text
    /\ task[t].ret.generated_text = task[t].cover_letter.generated_text
    /\ task[t].ret.rating = task[t].cover_letter.rating
    /\ task[t].ret.created_at = task[t].cover_letter.created_at

\* send_cover_letter_by_email has run to its end in frame t.
EmailEnded(t) == task[t].post # NotPosted

----------------------------------------------------------------------------
(* Claims *)

\* C1: whenever generate_cover_letter has run with a token count strictly
\* above the input budget (70% of the context window), it returned False,
\* the CoverLetter table is as it was when the invocation started, and the
\* completion provider was not called.
C1_OverBudgetReturnsFalse ==
    \A t \in Tasks :
        (GenerateEnded(t) /\ OverBudget(t)) =>
            /\ GenerateValue(t) = False
            /\ coverLetters = task[t].pre_letters
            /\ task[t].completion_calls = <<>>
            /\ task[t].completion = NotCalled

\* C1 witness: generate_cover_letter has ended for the smallest token count
\* above the budget.
C1_Witness ==
    \E t \in Tasks :
        /\ GenerateEnded(t)
        /\ OverBudget(t)
        /\ (task[t].num_input_tokens - 1) * 10 <= MaxTokenLimit * 7
        /\ task[t].entry = "generate_cover_letter"
        /\ task[t].ret = False

\* What C2 says of frame t once the generator has run within the budget and
\* the provider returned a well-formed response: one provider call, one new
\* row holding the first choice's content, the input-log name and the
\* request's resume, customer and job description, and that row returned.
OneLetterFromCompletion(t) ==
    /\ task[t].completion_calls =
         << [ messages |-> << AI_CONTEXT_MESSAGE_BEGIN,
                              AI_CONTEXT_MESSAGE_TASK,
                              [ resume |-> convert_resume_to_str(task[t].resume),
                                job_description |-> task[t].job_description_text ],
                              AI_CONTEXT_MESSAGE_RETURN >>,
              model |-> GPT_MODEL_IN_USE,
              max_tokens |-> 600 ] >>
    /\ CreatedOneLetter(t)
    /\ CreatedLetter(t).generated_text = task[t].completion.choices[1]
    /\ CreatedLetter(t).fixpoint_input_log_response_name = task[t].completion.input_log
    /\ CreatedLetter(t).resume_id = task[t].resume
    /\ CreatedLetter(t).customer = ResumeCustomer(task[t].resume)
    /\ CreatedLetter(t).job_description_text = task[t].job_description_text
    /\ GenerateValue(t) = CreatedLetter(t)

C3_ProviderFailureReturnsFalse ==
    \A t \in Tasks :
        (GenerateEnded(t) /\ FailedCompletion(t)) =>
            /\ GenerateValue(t) = False
            /\ task[t].ret # Raised
            /\ coverLetters = task[t].pre_letters
            /\ Len(task[t].completion_calls) = 1

\* C3 witness: the provider returned a response without an input-log name
\* and generate_cover_letter returned False.
C3_Witness ==
    \E t \in Tasks :
        /\ GenerateEnded(t)
        /\ task[t].completion.kind = "return"
        /\ task[t].completion.input_log = NoName
        /\ GenerateValue(t) = False

BookkeepingDone(t) ==
    /\ CounterIncremented(t)
    /\ EventCreated(t)
    /\ task[t].posts =
         << [ personalizations |->
                << [ to |-> <<[email |-> UserEmail(task[t].customer)]>>,
                     dynamic_template_data |->
                        [ firstName |-> get_contact_info_first_name(task[t].resume),
                          generatedCoverLetter |->
                              ReplaceNewlines(task[t].cover_letter.generated_text) ] ] >>,
              from |-> [email |-> SENDGRID_EMAIL_SENDER, name |-> "Jobs"],
              template_id |-> "abcde" ] >>
    /\ ReturnedSerializedLetter(t)

C6_FailureLeavesNoTrace ==
    \A t \in Tasks :
        /\ (BackgroundEnded(t) /\ task[t].cover_letter = False) =>
              /\ numGenerated = task[t].pre_generated
              /\ conversionEvents = task[t].pre_events
              /\ task[t].posts = <<>>
              /\ task[t].post = NotPosted
              /\ task[t].notified = <<"COVER_LETTER_UNABLE_TO_GENERATE">>
              /\ task[t].ret =
                    [ kind |-> "error", is_error |-> TRUE,
                      error_message |-> "COVER_LETTER_UNABLE_TO_GENERATE" ]
        /\ ( /\ task[t].entry = "generate_cover_letter_in_background_task"
             /\ \/ numGenerated # task[t].pre_generated
                \/ conversionEvents # task[t].pre_events ) =>
              /\ CreatedOneLetter(t)
              /\ CreatedLetter(t) = task[t].cover_letter

\* C6 witness: a background task whose provider call raised has ended with
\* the error payload, for a customer whose counter was 1.
C6_Witness ==
    \E t \in Tasks :
        /\ BackgroundEnded(t)
        /\ task[t].cover_letter = False
        /\ task[t].completion.kind = "raise"
        /\ task[t].ret.kind = "error"
        /\ numGenerated[task[t].customer] = 1

\* C7: whenever the background task has ended, normally or by a datastore
\* write that raised, either the counter increment is persisted and the
\* ConversionEvent exists, or neither.
C7_CounterAndEventAtomic ==
    \A t \in Tasks :
        BackgroundEnded(t) =>
            (numGenerated # task[t].pre_generated <=> conversionEvents # task[t].pre_events)

\* C8: once the background task has attempted the email, whatever the
\* delivery did (accepted status, rejected status, transport exception), the
\* counter increment and the ConversionEvent stay persisted, and the task
\* ends by returning the serialized row, never an error payload.
C8_EmailOutcomeHasNoEffect ==
    \A t \in Tasks :
        (task[t].entry = "generate_cover_letter_in_background_task" /\ EmailEnded(t)) =>
            /\ CounterIncremented(t)
            /\ EventCreated(t)
            /\ task[t].pc \in {"serialize", "done"}
            /\ task[t].pc = "done" =>
                  /\ ReturnedSerializedLetter(t)
                  /\ task[t].ret.kind # "error"

\* C8 witness: a background task whose email delivery raised a transport
\* exception has returned the serialized row.
C8_Witness ==
    \E t \in Tasks :
        /\ BackgroundEnded(t)
        /\ task[t].post.kind = "raise"
        /\ task[t].email_sent = False
        /\ task[t].ret.kind = "data"

\* The alerts send_cover_letter_by_email reported in frame t: a background
\* task that reaches the email has reported none before it.
EmailAlerts(t) == task[t].notified

\* C9: whenever send_cover_letter_by_email has ended with a response, it
\* returned True without an alert if the status code is in 200..299, and
\* returned False with exactly one alert for every other status code.
C9_SuccessIffStatus2xx ==
    \A t \in Tasks :
        (EmailEnded(t) /\ task[t].post.kind = "response") =>
            IF task[t].post.status_code \in 200..299
            THEN task[t].email_sent = True /\ EmailAlerts(t) = <<>>
            ELSE /\ task[t].email_sent = False
                 /\ EmailAlerts(t) = <<"COVER_LETTER_UNABLE_TO_SEND_EMAIL">>

\* C10: whenever send_cover_letter_by_email has ended after the email
\* delivery raised, it returned False (the exception did not reach its
\* caller), reported exactly one alert and posted exactly one request.
C10_TransportExceptionReturnsFalse ==
    \A t \in Tasks :
        (EmailEnded(t) /\ task[t].post.kind = "raise") =>
            /\ task[t].email_sent = False
            /\ task[t].ret # Raised
            /\ (task[t].entry = "send_cover_letter_by_email" /\ task[t].pc = "done") =>
                  task[t].ret = False
            /\ EmailAlerts(t) = <<"COVER_LETTER_UNABLE_TO_SEND_EMAIL">>
            /\ Len(task[t].posts) = 1

\* C10 witness: send_cover_letter_by_email, called on its own, has returned
\* False after the email delivery raised.
C10_Witness ==
    \E t \in Tasks :
        /\ task[t].entry = "send_cover_letter_by_email"
        /\ task[t].pc = "done"
        /\ task[t].post.kind = "raise"
        /\ task[t].ret = False
        /\ Len(task[t].posts) = 1

\* C11: no exception ever leaves an entry point: whatever collaborator fails,
\* every invocation hands its caller a value (a sentinel, a payload or None).
C11_NoExceptionEscapes ==
    \A t \in Tasks : task[t].ret # Raised

\* send_user_feedback_to_fixpoint has run to its end in frame t.
FeedbackEnded(t) ==
    /\ task[t].entry = "send_user_feedback_to_fixpoint"
    /\ task[t].pc = "done"

\* C12: whenever send_user_feedback_to_fixpoint has ended, it submitted
\* exactly one message, carrying the record's log reference and the
\* customer's user identifier, with the thumbs-down reaction if and only if
\* the record's rating is thumbs-down and the thumbs-up reaction for a
\* thumbs-up or null rating; and when the submission returned, no alert was
\* reported.
C12_FeedbackMessage ==
    \A t \in Tasks :
        FeedbackEnded(t) =>
            /\ Len(task[t].likes) = 1
            /\ task[t].likes[1].log_name =
                  <<"str", task[t].cover_letter.fixpoint_input_log_response_name>>
            /\ task[t].likes[1].user_id = <<"str", UserId(task[t].cover_letter.customer)>>
            /\ task[t].likes[1].thumbs_reaction = "ThumbsReaction.THUMBS_DOWN"
                  <=> task[t].cover_letter.rating = "CoverLetterFeedbackChoicesEnum.THUMBS_DOWN"
            /\ task[t].cover_letter.rating # "CoverLetterFeedbackChoicesEnum.THUMBS_DOWN"
                  => task[t].likes[1].thumbs_reaction = "ThumbsReaction.THUMBS_UP"
            /\ task[t].feedback = "return" => task[t].notified = <<>>

\* C12 witness: the feedback of a record with a null rating was submitted
\* with the thumbs-up reaction and no alert.
C12_Witness ==
    \E t \in Tasks :
        /\ FeedbackEnded(t)
        /\ task[t].cover_letter.rating = "None"
        /\ task[t].feedback = "return"
        /\ Len(task[t].likes) = 1
        /\ task[t].likes[1].thumbs_reaction = "ThumbsReaction.THUMBS_UP"

\* C13: whenever send_user_feedback_to_fixpoint has ended after the feedback
\* logging raised, it reported exactly one alert, returned None (no exception
\* reached its caller), attempted the submission exactly once, and the
\* CoverLetter rows (ratings included), the counters and the ConversionEvent
\* table are as they were when it was invoked.
C13_FeedbackFailureSwallowed ==
    \A t \in Tasks :
        (FeedbackEnded(t) /\ task[t].feedback = "raise") =>
            /\ task[t].notified = <<"COVER_LETTER_UNABLE_TO_SEND_FEEDBACK_TO_FIXPOINT">>
            /\ task[t].ret = None
            /\ Len(task[t].likes) = 1
            /\ coverLetters = task[t].pre_letters
            /\ numGenerated = task[t].pre_generated
            /\ conversionEvents = task[t].pre_events

\* C13 witness: the feedback of a record rated thumbs-down has ended after
\* the feedback logging raised, with the rating still in the datastore.
C13_Witness ==
    \E t \in Tasks :
        /\ FeedbackEnded(t)
        /\ task[t].feedback = "raise"
        /\ task[t].ret = None
        /\ \E i \in 1..Len(coverLetters) :
              /\ coverLetters[i] = task[t].cover_letter
              /\ coverLetters[i].rating = "CoverLetterFeedbackChoicesEnum.THUMBS_DOWN"

\* The background task of frame t has come to its end with a generated
\* cover letter, a saved counter and a recorded ConversionEvent, and has
\* returned the serialized cover letter.
BackgroundSucceeded(t) ==
    /\ BackgroundEnded(t)
    /\ GeneratorSucceeded(t)
    /\ task[t].save = "ok"
    /\ task[t].event = "ok"
    /\ task[t].ret.kind = "data"

\* The invocations of frames t and u are for the same customer and were each
\* handed the counter as persisted before either of them saved it.
ReadBeforeEitherPersisted(t, u) ==
    /\ task[t].customer = task[u].customer
    /\ task[t].pre_generated[task[t].customer] = 0
    /\ task[u].pre_generated[task[u].customer] = 0

\* C14: when exactly two invocations of the background task have been taken,
\* both for the same customer, both handed the counter before either saved
\* it, and both have succeeded, the persisted counter is the initial value
\* (0) plus one, less than the initial value plus the two successful
\* generations, while there are two CoverLetter rows and two
\* ConversionEvents.
C14_LostUpdate ==
    \A t, u \in Tasks :
        ( /\ t # u
          /\ started = 2
          /\ BackgroundSucceeded(t)
          /\ BackgroundSucceeded(u)
          /\ ReadBeforeEitherPersisted(t, u) )
        => /\ numGenerated[task[t].customer] = 1
           /\ numGenerated[task[t].customer] < 0 + 2
           /\ Len(coverLetters) = 2
           /\ Len(conversionEvents) = 2

\* C14 witness: two invocations for customer c1, each handed the counter 0,
\* have both succeeded; the persisted counter is 1 with two CoverLetter rows
\* and two ConversionEvents.
C14_Witness ==
    \E t, u \in Tasks :
        /\ t # u
        /\ BackgroundSucceeded(t)
        /\ BackgroundSucceeded(u)
        /\ task[t].customer = "c1"
        /\ ReadBeforeEitherPersisted(t, u)
        /\ numGenerated["c1"] = 1
        /\ Len(coverLetters) = 2
        /\ Len(conversionEvents) = 2

====
